---- MODULE Spec2Model ----
(***************************************************************************)
(* Model of the audio-diarization repository: the two orchestrators        *)
(* (AudioTranscriber in audio_transcriber.py, AudioProcessor in            *)
(* audio_processor.py), the command line entry point (main.py) and the two *)
(* Streamlit front ends (app.py, web_app.py).                              *)
(*                                                                         *)
(* Conventions                                                             *)
(*   - Python None is 0 for object references and file ids, and the        *)
(*     one-element sequence NoneText for an Optional[str].                 *)
(*   - A str is a sequence of one-character strings.                       *)
(*   - Times are integers in milliseconds (float seconds * 1000).          *)
(*   - A file path is a record [id, suffix]; the file system is the set of *)
(*     ids of the files that exist.                                        *)
(***************************************************************************)
EXTENDS Integers, Sequences, FiniteSets, TLC

VARIABLES
  transcriber,     \* the AudioTranscriber instance of the session
  processor,       \* the AudioProcessor instance of the session
  files,           \* ids of the files that exist on disk
  nextId,          \* next fresh file id (tempfile.mkstemp / NamedTemporaryFile)
  calls,           \* number of entry-point runs so far
  extractedIds,    \* history: ids of every temp file made by an audio extraction
  stagedIds,       \* history: ids of every temp file made to stage an upload
  invoked,         \* history: the instances that have been invoked
  inv,             \* history: the orchestrator invocation of the last run
  session_app,     \* st.session_state of app.py
  session_web,     \* st.session_state of web_app.py
  ui,              \* history: what the last run showed, if a UI script
  cli,             \* history: what the last run did, if main.py
  tape,            \* the diarization tape of the segment-pipeline specification
  report,          \* the last report built in the segment-pipeline specification
  seconds,         \* input of the timestamp formatter (milliseconds)
  timestamp        \* outputs of the two timestamp formatters

vars == <<transcriber, processor, files, nextId, calls, extractedIds, stagedIds,
          invoked, inv, session_app, session_web, ui, cli, tape, report, seconds, timestamp>>

-----------------------------------------------------------------------------
(* Bounds of the model *)

\* at most this many entry-point runs (orchestrator calls, UI runs, CLI runs)
MaxCalls == 2
\* at most this many diarization segments per run
MaxSegs == 2
\* largest hour value given to the timestamp formatter
MaxHours == 100

(* Program constants *)

\* Audio(sample_rate=16000, mono=True)
SampleRate == 16000
\* AudioProcessor: waveform.shape[-1] / sample_rate < 0.1 (milliseconds here)
MinDurationMsProcessor == 100
\* AudioTranscriber: segment.duration < 0.5 (milliseconds here)
MinDurationMsTranscriber == 500
\* app.py: file_size_mb > 500 and file_size_mb > 1000
WarnSizeMb == 500
StopSizeMb == 1000

None == 0
NoneText == <<"None">>

-----------------------------------------------------------------------------
(* Python str helpers *)

IsSpace(c) == c = " "

RECURSIVE lstrip(_)
lstrip(s) ==
  IF s = <<>> THEN s
  ELSE IF IsSpace(Head(s)) THEN lstrip(Tail(s)) ELSE s

RECURSIVE rstrip(_)
rstrip(s) ==
  IF s = <<>> THEN s
  ELSE IF IsSpace(s[Len(s)]) THEN rstrip(SubSeq(s, 1, Len(s) - 1)) ELSE s

\* str.strip()
strip(s) == rstrip(lstrip(s))

\* truthiness of an Optional[str]: neither None nor ""
Truthy(s) == s /= NoneText /\ s /= <<>>

\* str.lower() on the file suffixes of the model
lower(s) ==
  CASE s = ".MP4" -> ".mp4"
    [] s = ".WAV" -> ".wav"
    [] s = ".TXT" -> ".txt"
    [] s = ".FLAC" -> ".flac"
    [] OTHER -> s

Digit(d) ==
  CASE d = 0 -> "0" [] d = 1 -> "1" [] d = 2 -> "2" [] d = 3 -> "3" [] d = 4 -> "4"
    [] d = 5 -> "5" [] d = 6 -> "6" [] d = 7 -> "7" [] d = 8 -> "8" [] d = 9 -> "9"

\* str(n) for n >= 0
RECURSIVE Decimal(_)
Decimal(n) == IF n < 10 THEN <<Digit(n)>> ELSE Append(Decimal(n \div 10), Digit(n % 10))

\* f"{n:02}": zero-padded to a minimum width of two
Format02(n) == IF Len(Decimal(n)) < 2 THEN <<"0">> \o Decimal(n) ELSE Decimal(n)

\* int(seconds) for seconds >= 0 held in milliseconds
IntOfSeconds(ms) == ms \div 1000

\* _format_time taking the minutes from the total, not from the remainder
FormatTimeWrongRemainder(ms) ==
  LET total_seconds == IntOfSeconds(ms)
      hours == total_seconds \div 3600
      minutes == total_seconds \div 60
      secs == total_seconds % 60
  IN Format02(hours) \o <<":">> \o Format02(minutes) \o <<":">> \o Format02(secs)

\* AudioProcessor._format_time
AudioProcessor_format_time(ms) ==
  LET total_seconds == IntOfSeconds(ms)
      hours == total_seconds \div 3600
      remainder == total_seconds % 3600
      minutes == remainder \div 60
      secs == remainder % 60
  IN Format02(hours) \o <<":">> \o Format02(minutes) \o <<":">> \o Format02(secs)

\* AudioTranscriber._seconds_to_timestamp
AudioTranscriber_seconds_to_timestamp(ms) ==
  LET total_seconds == IntOfSeconds(ms)
      hours == total_seconds \div 3600
      remainder == total_seconds % 3600
      minutes == remainder \div 60
      secs == remainder % 60
  IN Format02(hours) \o <<":">> \o Format02(minutes) \o <<":">> \o Format02(secs)

-----------------------------------------------------------------------------
(* Paths and the diarization tape *)

Path(id, suffix) == [id |-> id, suffix |-> suffix]
NoPath == Path(None, "")

VideoSuffixes == {".mp4", ".avi", ".mov", ".mkv", ".webm"}
AudioSuffixes == {".wav", ".mp3", ".m4a", ".flac"}

\* main.py: supported_formats
supported_formats == VideoSuffixes \cup AudioSuffixes

\* the suffix test always taken: every input goes through the extraction
TreatsAllAsVideo(path) == TRUE

\* input_path.suffix.lower() in ['.mp4', '.avi', '.mov', '.mkv', '.webm']
IsVideo(path) == lower(path.suffix) \in VideoSuffixes

\* One track yielded by diarization.itertracks(yield_label=True), together with
\* what the two models do when given it: crop is the outcome of
\* Audio.crop ("ok" or "raise"), whisper the outcome of the Whisper calls
\* ("ok" or "raise"), text the decoded text when they succeed.
Track(start, end, speaker, crop, whisper, text) ==
  [start |-> start, end |-> end, speaker |-> speaker,
   crop |-> crop, whisper |-> whisper, text |-> text]

\* pyannote Segment.duration
Duration(t) == t.end - t.start

\* number of frames of the waveform Audio.crop returns at SampleRate
Frames(t) == (Duration(t) * SampleRate) \div 1000

-----------------------------------------------------------------------------
(* Model Loader *)

NewTranscriber ==
  [diarization_pipeline |-> None, whisper_processor |-> None,
   whisper_model |-> None, audio_handler |-> None]

NewProcessor ==
  [pipeline |-> None, processor |-> None, model |-> None,
   audio_handler |-> None, temp_audio_file |-> None]

\* Where a load can raise: Pipeline.from_pretrained, pipeline.to(device),
\* WhisperProcessor.from_pretrained, WhisperForConditionalGeneration
\* .from_pretrained(...).to(device), Audio(...); or nowhere.
LoadOutcomes ==
  {"ok", "fail_pipeline", "fail_to_device", "fail_processor", "fail_model", "fail_audio"}

\* the guard never taken: every invocation loads again
TranscriberGuardNever(self) == FALSE

\* the guard of AudioTranscriber._load_models
TranscriberAlreadyLoaded(self) == self.diarization_pipeline /= None

\* AudioTranscriber._load_models; tag names the objects this load creates
AudioTranscriber_load_models(self, out, tag) ==
  IF TranscriberAlreadyLoaded(self) THEN [self |-> self, raised |-> FALSE]
  ELSE IF out = "fail_pipeline" THEN [self |-> self, raised |-> TRUE]
  ELSE LET s1 == [self EXCEPT !.diarization_pipeline = tag] IN
  IF out \in {"fail_to_device", "fail_processor"} THEN [self |-> s1, raised |-> TRUE]
  ELSE LET s2 == [s1 EXCEPT !.whisper_processor = tag] IN
  IF out = "fail_model" THEN [self |-> s2, raised |-> TRUE]
  ELSE LET s3 == [s2 EXCEPT !.whisper_model = tag] IN
  IF out = "fail_audio" THEN [self |-> s3, raised |-> TRUE]
  ELSE [self |-> [s3 EXCEPT !.audio_handler = tag], raised |-> FALSE]

\* AudioProcessor._load_models (no guard of its own: process_file guards it)
AudioProcessor_load_models(self, out, tag) ==
  IF out = "fail_pipeline" THEN [self |-> self, raised |-> TRUE]
  ELSE LET s1 == [self EXCEPT !.pipeline = tag] IN
  IF out \in {"fail_to_device", "fail_processor"} THEN [self |-> s1, raised |-> TRUE]
  ELSE LET s2 == [s1 EXCEPT !.processor = tag] IN
  IF out = "fail_model" THEN [self |-> s2, raised |-> TRUE]
  ELSE LET s3 == [s2 EXCEPT !.model = tag] IN
  IF out = "fail_audio" THEN [self |-> s3, raised |-> TRUE]
  ELSE [self |-> [s3 EXCEPT !.audio_handler = tag], raised |-> FALSE]

-----------------------------------------------------------------------------
(* Audio Extractor *)

\* What an extraction can do: succeed, find no audio track, fail while
\* opening the clip or writing the file, or fail to get a temp file at all.
ExtractOutcomes == {"ok", "no_audio", "write_fail", "mkstemp_fail"}

\* module constant of audio_processor.py (the import of moviepy succeeded)
MOVIEPY_AVAILABLE == TRUE

\* the except branch keeping the partly written file
KeepsPartialFile(w, id) == w

\* `if temp_audio_path.exists(): temp_audio_path.unlink()` of the except branches
RemoveIfExists(w, id) == IF id \in w.files THEN [w EXCEPT !.files = w.files \ {id}] ELSE w

\* AudioTranscriber.extract_audio_from_mp4: w is the file system [files, nextId]
extract_audio_from_mp4(w, out) ==
  IF out = "mkstemp_fail"
  THEN [w |-> w, path |-> NoPath, raised |-> TRUE, created |-> {}]
  ELSE LET temp_audio_path == Path(w.nextId, ".wav")
           made == [files |-> w.files \cup {w.nextId}, nextId |-> w.nextId + 1]
       IN IF out = "ok"
          THEN [w |-> made, path |-> temp_audio_path, raised |-> FALSE,
                created |-> {w.nextId}]
          ELSE \* except: if temp_audio_path.exists(): unlink(); raise RuntimeError
               [w |-> RemoveIfExists(made, w.nextId),
                path |-> NoPath, raised |-> TRUE, created |-> {w.nextId}]

\* AudioProcessor.extract_audio_from_video: returns None (NoPath) on error
extract_audio_from_video(self, w, out) ==
  IF ~MOVIEPY_AVAILABLE
  THEN [self |-> self, w |-> w, path |-> NoPath, raised |-> TRUE, created |-> {}]
  ELSE IF out = "mkstemp_fail"
  THEN [self |-> self, w |-> w, path |-> NoPath, raised |-> FALSE, created |-> {}]
  ELSE LET temp_audio_path == Path(w.nextId, ".wav")
           made == [files |-> w.files \cup {w.nextId}, nextId |-> w.nextId + 1]
       IN IF out = "ok"
          THEN [self |-> [self EXCEPT !.temp_audio_file = w.nextId],
                w |-> made, path |-> temp_audio_path, raised |-> FALSE,
                created |-> {w.nextId}]
          ELSE \* except: os.unlink(temp_path) if it exists; return None
               [self |-> self,
                w |-> RemoveIfExists(made, w.nextId),
                path |-> NoPath, raised |-> FALSE, created |-> {w.nextId}]

-----------------------------------------------------------------------------
(* Segment Pipeline *)

\* Audio.crop raises (audio_handler is None, or the crop itself fails)
CropRaises(audio_handler, t) == audio_handler = None \/ t.crop = "raise"

\* AudioTranscriber._transcribe_audio_segment: any exception gives None
AudioTranscriber_transcribe_audio_segment(self, t) ==
  IF self.whisper_processor = None \/ self.whisper_model = None \/ t.whisper = "raise"
  THEN NoneText
  ELSE t.text

\* AudioProcessor._transcribe_segment: any exception gives None
AudioProcessor_transcribe_segment(self, t) ==
  IF self.processor = None \/ self.model = None \/ t.whisper = "raise"
  THEN NoneText
  ELSE t.text

\* the duration test left out: no segment is too short
NeverTooShort(t) == FALSE

\* segment.duration < 0.5
TooShortTranscriber(t) == Duration(t) < MinDurationMsTranscriber

\* waveform.shape[-1] / sample_rate < 0.1
TooShortProcessor(t) == Frames(t) * 1000 < MinDurationMsProcessor * SampleRate

\* the test left out: every transcribed segment is kept
KeepsEverything(text) == TRUE

\* `if text and text.strip()`
Keeps(text) == Truthy(text) /\ Truthy(strip(text))

\* insert(0, ...) in place of append
Prepend(acc, r) == <<r>> \o acc

\* transcription_results.append({...}) / results.append({...})
AppendResult(acc, r) == Append(acc, r)

TranscriberResult(t, text) ==
  [start |-> AudioTranscriber_seconds_to_timestamp(t.start),
   end |-> AudioTranscriber_seconds_to_timestamp(t.end),
   speaker |-> t.speaker,
   text |-> strip(text)]

ProcessorResult(t, text) ==
  [start |-> AudioProcessor_format_time(t.start),
   end |-> AudioProcessor_format_time(t.end),
   speaker |-> t.speaker,
   text |-> strip(text)]

\* the for loop of AudioTranscriber.transcribe_file from track i on
RECURSIVE TranscriberLoop(_, _, _, _)
TranscriberLoop(self, diar, i, acc) ==
  IF i > Len(diar) THEN [raised |-> FALSE, results |-> acc]
  ELSE LET t == diar[i] IN
    IF TooShortTranscriber(t) THEN TranscriberLoop(self, diar, i + 1, acc)
    ELSE IF CropRaises(self.audio_handler, t) THEN [raised |-> TRUE, results |-> <<>>]
    ELSE LET transcribed_text == AudioTranscriber_transcribe_audio_segment(self, t) IN
      IF Keeps(transcribed_text)
      THEN TranscriberLoop(self, diar, i + 1,
                           AppendResult(acc, TranscriberResult(t, transcribed_text)))
      ELSE TranscriberLoop(self, diar, i + 1, acc)

\* the for loop of AudioProcessor.process_file from track i on
RECURSIVE ProcessorLoop(_, _, _, _)
ProcessorLoop(self, diar, i, acc) ==
  IF i > Len(diar) THEN [raised |-> FALSE, results |-> acc]
  ELSE LET t == diar[i] IN
    IF CropRaises(self.audio_handler, t) THEN ProcessorLoop(self, diar, i + 1, acc)
    ELSE IF TooShortProcessor(t) THEN ProcessorLoop(self, diar, i + 1, acc)
    ELSE LET text == AudioProcessor_transcribe_segment(self, t) IN
      IF Keeps(text)
      THEN ProcessorLoop(self, diar, i + 1, AppendResult(acc, ProcessorResult(t, text)))
      ELSE ProcessorLoop(self, diar, i + 1, acc)

-----------------------------------------------------------------------------
(* The orchestrators' entry points.  env holds what the collaborators do in *)
(* this invocation: load (a LoadOutcomes), extract (an ExtractOutcomes),    *)
(* diarize ("ok" or "raise") and diar (the tracks the diarization yields).  *)
(* The result is the instance and file system afterwards and how the call   *)
(* ended: the audio path it prepared (NoPath if it got none), raised, the    *)
(* stage that raised, the returned results.                                 *)

Env(load, extract, diarize, diar) ==
  [load |-> load, extract |-> extract, diarize |-> diarize, diar |-> diar]

Ended(self, w, created, audio_path, raised, stage, results) ==
  [self |-> self, w |-> w, created |-> created, audio_path |-> audio_path,
   raised |-> raised, stage |-> stage, results |-> results]

\* finally: if temp_file and temp_file.exists(): temp_file.unlink()
TranscriberFinally(w, temp_file) ==
  IF temp_file /= NoPath /\ temp_file.id \in w.files
  THEN [w EXCEPT !.files = w.files \ {temp_file.id}]
  ELSE w

\* AudioTranscriber.transcribe_file
transcribe_file(self, w, file_path, env, tag) ==
  LET loaded == AudioTranscriber_load_models(self, env.load, tag) IN
  IF loaded.raised THEN Ended(loaded.self, w, {}, NoPath, TRUE, "load", <<>>)
  ELSE
  LET ex == IF IsVideo(file_path)
            THEN extract_audio_from_mp4(w, env.extract)
            ELSE [w |-> w, path |-> file_path, raised |-> FALSE, created |-> {}]
      temp_file == IF IsVideo(file_path) THEN ex.path ELSE NoPath
  IN
  IF ex.raised THEN Ended(loaded.self, ex.w, ex.created, NoPath, TRUE, "extract", <<>>)
  ELSE IF env.diarize = "raise"
  THEN Ended(loaded.self, TranscriberFinally(ex.w, temp_file), ex.created, ex.path,
             TRUE, "diarize", <<>>)
  ELSE
  LET loop == TranscriberLoop(loaded.self, env.diar, 1, <<>>) IN
  Ended(loaded.self, TranscriberFinally(ex.w, temp_file), ex.created, ex.path,
        loop.raised, IF loop.raised THEN "segment" ELSE "return", loop.results)

\* `if self.pipeline is None:` in AudioProcessor.process_file
ProcessorNotLoaded(self) == self.pipeline = None

\* AudioProcessor.process_file
process_file(self, w, input_path, env, tag) ==
  LET loaded == IF ProcessorNotLoaded(self)
                THEN AudioProcessor_load_models(self, env.load, tag)
                ELSE [self |-> self, raised |-> FALSE]
  IN
  IF loaded.raised THEN Ended(loaded.self, w, {}, NoPath, TRUE, "load", <<>>)
  ELSE
  LET ex == IF IsVideo(input_path)
            THEN extract_audio_from_video(loaded.self, w, env.extract)
            ELSE [self |-> loaded.self, w |-> w, path |-> input_path,
                  raised |-> FALSE, created |-> {}]
  IN
  IF ex.raised \/ ex.path = NoPath
  THEN Ended(ex.self, ex.w, ex.created, NoPath, TRUE, "extract", <<>>)
  ELSE IF env.diarize = "raise"
  THEN Ended(ex.self, ex.w, ex.created, ex.path, TRUE, "diarize", <<>>)
  ELSE
  LET loop == ProcessorLoop(ex.self, env.diar, 1, <<>>) IN
  Ended(ex.self, ex.w, ex.created, ex.path, FALSE, "return", loop.results)

-----------------------------------------------------------------------------
(* Report Builder.  A report is the sequence of its lines before the final  *)
(* "\n".join; a line is [kind, num, name, seg]: num the number it renders,  *)
(* name the file name it renders, seg the result it renders.                *)

NoSeg == [start |-> <<>>, end |-> <<>>, speaker |-> "", text |-> <<>>]

Line(kind, num, name, seg) == [kind |-> kind, num |-> num, name |-> name, seg |-> seg]

Plain(kind) == Line(kind, 0, "", NoSeg)

\* set(r['speaker'] for r in results)
SpeakerSet(results) == {results[i].speaker : i \in 1..Len(results)}

\* len(results) in place of len(set(...))
SpeakerCountAsLength(results) == Len(results)

\* len(set(...)) rendered in the speaker-count line
SpeakerCount(results) == Cardinality(SpeakerSet(results))

\* the three lines markdown_lines.extend([...]) adds for one result
Block(quote, result) ==
  << Line("segment_head", 0, "", result), Line(quote, 0, "", result), Plain("blank") >>

RECURSIVE Blocks(_, _)
Blocks(quote, results) ==
  IF results = <<>> THEN <<>>
  ELSE Block(quote, Head(results)) \o Blocks(quote, Tail(results))

\* AudioProcessor.results_to_markdown
results_to_markdown(results, input_filename) ==
  << Plain("title"), Plain("blank"),
     Line("input_file", 0, input_filename, NoSeg),
     Plain("datetime"),
     Line("speaker_count", SpeakerCount(results), "", NoSeg),
     Line("segment_count", Len(results), "", NoSeg),
     Plain("blank"), Plain("heading"), Plain("blank") >>
  \o Blocks("text", results)

\* AudioTranscriber.create_markdown_report
create_markdown_report(results, input_filename) ==
  << Plain("title"), Plain("blank"),
     Line("input_file", 0, input_filename, NoSeg),
     Plain("datetime"),
     Line("speaker_count", SpeakerCount(results), "", NoSeg),
     Line("segment_count", Len(results), "", NoSeg),
     Plain("blank"), Plain("rule"), Plain("blank"), Plain("heading"), Plain("blank") >>
  \o Blocks("quoted_text", results)

-----------------------------------------------------------------------------
(* Front ends: the Streamlit handlers *)

Name(stem, suffix) == [stem |-> stem, suffix |-> suffix]
NoName == Name("", "")

NewSession ==
  [keys |-> {}, transcription_results |-> <<>>, markdown_result |-> <<>>,
   original_filename |-> NoName]

\* What a handler run did: the file it staged (None if none), the messages it
\* showed with st.error, the results the pipeline returned to it, whether the
\* pipeline was called and whether the handler stored a result.
Handled(self, w, session, staged, errors, called, ended, stored) ==
  [self |-> self, w |-> w, session |-> session, staged |-> staged,
   errors |-> errors, called |-> called, ended |-> ended, stored |-> stored]

NotEnded == Ended(None, [files |-> {}, nextId |-> 0], {}, NoPath, FALSE, "none", <<>>)

\* tmp_path.unlink()
Unlink(w, id) == [w EXCEPT !.files = w.files \ {id}]

\* the test left out: an empty list goes on to the report
NeverEmpty(results) == FALSE

\* `if not results:` in the handlers and in main.py
NoResults(results) == results = <<>>

\* app.py: st.session_state.markdown_result = markdown_content;
\*         st.session_state.original_filename = uploaded_file.name
app_store_session(session, markdown_content, uploaded_file) ==
  [session EXCEPT !.keys = @ \cup {"markdown_result", "original_filename"},
                  !.markdown_result = markdown_content,
                  !.original_filename = uploaded_file]

\* the assignment of original_filename left out
StoresWithoutName(session, results, markdown_content, uploaded_file) ==
  [session EXCEPT !.keys = @ \cup {"transcription_results", "markdown_result",
                                   "original_filename"},
                  !.transcription_results = results,
                  !.markdown_result = markdown_content]

\* web_app.py: st.session_state.transcription_results = results;
\*             st.session_state.markdown_result = markdown_content;
\*             st.session_state.original_filename = uploaded_file.name
web_store_session(session, results, markdown_content, uploaded_file) ==
  [session EXCEPT !.keys = @ \cup {"transcription_results", "markdown_result",
                                   "original_filename"},
                  !.transcription_results = results,
                  !.markdown_result = markdown_content,
                  !.original_filename = uploaded_file]

\* app.py process_file(uploaded_file); stage is what writing the upload to the
\* NamedTemporaryFile does ("ok" or "raise")
app_process_file(self, w, session, uploaded_file, stage, env, tag) ==
  LET tmp_path == Path(w.nextId, uploaded_file.suffix)
      made == [files |-> w.files \cup {w.nextId}, nextId |-> w.nextId + 1]
  IN
  IF stage = "raise"
  THEN \* tmp_file.write raised: tmp_path is not yet a local of the handler
       Handled(self, made, session, w.nextId, {"exception"}, FALSE, NotEnded, FALSE)
  ELSE
  LET r == process_file(self, made, tmp_path, env, tag) IN
  IF r.raised
  THEN \* except Exception: st.error; unlink tmp_path if it exists
       Handled(r.self,
               IF tmp_path.id \in r.w.files THEN Unlink(r.w, tmp_path.id) ELSE r.w,
               session, tmp_path.id, {"exception"}, TRUE, r, FALSE)
  ELSE IF NoResults(r.results)
  THEN \* st.error; return
       Handled(r.self, r.w, session, tmp_path.id, {"no_results"}, TRUE, r, FALSE)
  ELSE
       Handled(r.self, Unlink(r.w, tmp_path.id),
               app_store_session(session,
                                 results_to_markdown(r.results, uploaded_file),
                                 uploaded_file),
               tmp_path.id, {}, TRUE, r, TRUE)

\* web_app.py process_uploaded_file(uploaded_file)
web_process_uploaded_file(self, w, session, uploaded_file, stage, env, tag) ==
  LET tmp_path == Path(w.nextId, uploaded_file.suffix)
      made == [files |-> w.files \cup {w.nextId}, nextId |-> w.nextId + 1]
  IN
  IF stage = "raise"
  THEN Handled(self, made, session, w.nextId, {"exception"}, FALSE, NotEnded, FALSE)
  ELSE
  LET r == transcribe_file(self, made, tmp_path, env, tag) IN
  IF r.raised
  THEN Handled(r.self,
               IF tmp_path.id \in r.w.files THEN Unlink(r.w, tmp_path.id) ELSE r.w,
               session, tmp_path.id, {"exception"}, TRUE, r, FALSE)
  ELSE IF NoResults(r.results)
  THEN Handled(r.self, r.w, session, tmp_path.id, {"no_results"}, TRUE, r, FALSE)
  ELSE
       Handled(r.self, Unlink(r.w, tmp_path.id),
               web_store_session(session, r.results,
                                 create_markdown_report(r.results, uploaded_file),
                                 uploaded_file),
               tmp_path.id, {}, TRUE, r, TRUE)

-----------------------------------------------------------------------------
(* Front end: main.py.  args is [id, stem, suffix, output]: the input file   *)
(* (its id on disk), and the -o argument ("" when absent).                   *)

\* `if not input_path.exists():` checked before the suffix
Missing(id, fs) == id \notin fs

\* the test left out: any suffix goes on to the transcriber
AcceptsAnySuffix(suffix) == FALSE

\* `if input_path.suffix.lower() not in supported_formats:`
Unsupported(suffix) == lower(suffix) \notin supported_formats

Exited(w, status, out, constructed, called, ended, built, written) ==
  [w |-> w, status |-> status, out |-> out, constructed |-> constructed,
   called |-> called, ended |-> ended, built |-> built, written |-> written]

\* main(): save is what save_markdown_file does ("ok" or "raise").  out is
\* the sequence of the messages printed; written is the report saved.
cli_main(w, args, env, save, tag) ==
  IF Missing(args.id, w.files)
  THEN Exited(w, 1, <<"file_not_found">>, FALSE, FALSE, NotEnded, FALSE, <<>>)
  ELSE IF Unsupported(args.suffix)
  THEN Exited(w, 1, <<"unsupported_format", "supported_formats">>,
              FALSE, FALSE, NotEnded, FALSE, <<>>)
  ELSE
  LET r == transcribe_file(NewTranscriber, w, Path(args.id, args.suffix), env, tag)
      banner == <<"banner", "start">>
  IN
  IF r.raised
  THEN Exited(r.w, 1, banner \o <<"error">>, TRUE, TRUE, r, FALSE, <<>>)
  ELSE IF NoResults(r.results)
  THEN Exited(r.w, 1, banner \o <<"no_results">>, TRUE, TRUE, r, FALSE, <<>>)
  ELSE IF save = "raise"
  THEN Exited(r.w, 1, banner \o <<"building_report", "error">>,
              TRUE, TRUE, r, TRUE, <<>>)
  ELSE Exited(r.w, 0, banner \o <<"building_report", "done">>, TRUE, TRUE, r, TRUE,
              create_markdown_report(r.results, Name(args.stem, args.suffix)))

-----------------------------------------------------------------------------
(* Front ends: the Streamlit scripts.  upload is what the file uploader      *)
(* holds: [present, name, size_mb]; clicked is what st.button returns.       *)

Upload(present, name, size_mb) == [present |-> present, name |-> name, size_mb |-> size_mb]

Shown(h, warned, stopped, offered, started, displayed) ==
  [h |-> h, warned |-> warned, stopped |-> stopped, offered |-> offered,
   started |-> started, displayed |-> displayed]

Idle(self, w, session) == Handled(self, w, session, None, {}, FALSE, NotEnded, FALSE)

\* app.py main()
app_main(self, w, session, upload, clicked, stage, env, tag) ==
  IF ~upload.present
  THEN Shown(Idle(self, w, session), FALSE, FALSE, FALSE, FALSE,
             "markdown_result" \in session.keys)
  ELSE
  LET warned == upload.size_mb > WarnSizeMb
      \* elif: only reached when the first test is false
      stopped == ~warned /\ upload.size_mb > StopSizeMb
  IN
  IF stopped
  THEN Shown(Idle(self, w, session), warned, TRUE, FALSE, FALSE, FALSE)
  ELSE IF ~clicked
  THEN Shown(Idle(self, w, session), warned, FALSE, TRUE, FALSE,
             "markdown_result" \in session.keys)
  ELSE
  LET h == app_process_file(self, w, session, upload.name, stage, env, tag) IN
  Shown(h, warned, FALSE, TRUE, TRUE, "markdown_result" \in h.session.keys)

\* web_app.py main()
web_main(self, w, session, upload, clicked, stage, env, tag) ==
  IF ~upload.present
  THEN Shown(Idle(self, w, session), FALSE, FALSE, FALSE, FALSE,
             "markdown_result" \in session.keys)
  ELSE
  LET warned == upload.size_mb > WarnSizeMb IN
  IF ~clicked
  THEN Shown(Idle(self, w, session), warned, FALSE, TRUE, FALSE,
             "markdown_result" \in session.keys)
  ELSE
  LET h == web_process_uploaded_file(self, w, session, upload.name, stage, env, tag) IN
  Shown(h, warned, FALSE, TRUE, TRUE, "markdown_result" \in h.session.keys)

-----------------------------------------------------------------------------
(* Inputs of the model *)

Speakers == {"SPEAKER_00", "SPEAKER_01"}

\* start of the i-th track of a tape: tracks three seconds apart
TrackStart(i) == (i - 1) * 3000

Case(dur, speaker, crop, whisper, text) ==
  [dur |-> dur, speaker |-> speaker, crop |-> crop, whisper |-> whisper, text |-> text]

\* what the models can do with one track: the crop raises, the transcription
\* raises, or the transcription gives a text
ModelCases(texts) ==
  {<<"raise", "ok", <<>>>>, <<"ok", "raise", <<>>>>} \cup {<<"ok", "ok", tx>> : tx \in texts}

Cases(durs, texts) ==
  {Case(d, sp, m[1], m[2], m[3]) : d \in durs, sp \in Speakers, m \in ModelCases(texts)}

Place(cs) ==
  [i \in 1..Len(cs) |->
     Track(TrackStart(i), TrackStart(i) + cs[i].dur, cs[i].speaker,
           cs[i].crop, cs[i].whisper, cs[i].text)]

TapesOf(cases, n) == {Place(cs) : cs \in UNION {[1..k -> cases] : k \in 0..n}}

\* tapes of the segment-pipeline specification: durations below, at and between
\* the two thresholds
RichTapes == TapesOf(Cases({50, 100, 500}, {<<>>, <<" ">>, <<" ", "a">>}), MaxSegs)

\* tracks of the life-cycle specifications: one speaker, one duration
SmallCases ==
  {Case(2000, "SPEAKER_00", m[1], m[2], m[3]) :
     m \in {<<"raise", "ok", <<>>>>, <<"ok", "ok", <<>>>>, <<"ok", "ok", <<" ", "a">>>>}}

\* tapes of the orchestrator specification
SmallTapes == TapesOf(SmallCases, MaxSegs)

\* tapes of the front-end specification: no track or one
FrontTapes == TapesOf(SmallCases, 1)

\* what the collaborators can do in one invocation; what follows a failure is
\* never used, so it is fixed
Envs(tapes) ==
  {Env(l, "ok", "ok", <<>>) : l \in LoadOutcomes \ {"ok"}}
  \cup {Env("ok", e, "ok", <<>>) : e \in ExtractOutcomes \ {"ok"}}
  \cup {Env("ok", "ok", "raise", <<>>)}
  \cup {Env("ok", "ok", "ok", d) : d \in tapes}

SmallEnvs == Envs(SmallTapes)

\* the front-end specification: a load that sets nothing or all but the audio
\* handler, an extraction that finds no audio track, a diarization that
\* raises, and the front tapes
FrontEnvs ==
  {Env("fail_pipeline", "ok", "ok", <<>>), Env("fail_audio", "ok", "ok", <<>>),
   Env("ok", "no_audio", "ok", <<>>), Env("ok", "ok", "raise", <<>>)}
  \cup {Env("ok", "ok", "ok", d) : d \in FrontTapes}

\* an input that the run never reads is fixed rather than enumerated
EnvsIf(read) == IF read THEN FrontEnvs ELSE {Env("ok", "ok", "ok", <<>>)}
OutcomesIf(read) == IF read THEN {"ok", "raise"} ELSE {"ok"}

\* the files on disk at the start: a video, an audio file, a text file, and
\* an audio file with an upper-case suffix
InputVideo == Path(1, ".MP4")
InputAudio == Path(2, ".wav")
InputAudioUpper == Path(6, ".FLAC")
InitialFiles == {1, 2, 3, 6}
UserFiles == {InputVideo, InputAudio, InputAudioUpper}

Args(id, stem, suffix, output) ==
  [id |-> id, stem |-> stem, suffix |-> suffix, output |-> output]

\* command lines: existing and missing files, supported and unsupported suffixes
CliArgs ==
  {Args(1, "meeting", ".MP4", ""), Args(2, "talk", ".wav", "out.md"),
   Args(3, "notes", ".txt", ""), Args(3, "notes", ".TXT", ""),
   Args(4, "gone", ".txt", ""), Args(5, "gone", ".wav", "")}

Uploads ==
  {Upload(FALSE, NoName, 0)}
  \cup {Upload(TRUE, Name("meeting", ".mp4"), 100),
        Upload(TRUE, Name("talk", ".wav"), 600),
        Upload(TRUE, Name("meeting", ".mp4"), 1500)}

-----------------------------------------------------------------------------
(* State *)

\* an invocation: who called which orchestrator on which input path, what the
\* extraction did in it, and how it ended
Invocation(caller, cls, input, env, r) ==
  [caller |-> caller, cls |-> cls, input |-> input, extract |-> env.extract,
   audio_path |-> r.audio_path, raised |-> r.raised,
   stage |-> r.stage, results |-> r.results, created |-> r.created]

NoInvocation == Invocation("none", "none", NoPath, Env("ok", "ok", "ok", <<>>), NotEnded)

UiRun(script, upload, s) ==
  [script |-> script, size_mb |-> upload.size_mb, warned |-> s.warned, stopped |-> s.stopped, offered |-> s.offered,
   started |-> s.started, displayed |-> s.displayed, staged |-> s.h.staged,
   errors |-> s.h.errors, called |-> s.h.called, stored |-> s.h.stored]

NoUiRun ==
  [script |-> "none", size_mb |-> 0, warned |-> FALSE, stopped |-> FALSE, offered |-> FALSE,
   started |-> FALSE, displayed |-> FALSE, staged |-> None,
   errors |-> {}, called |-> FALSE, stored |-> FALSE]

CliRun(args, x) ==
  [ran |-> TRUE, args |-> args, status |-> x.status, out |-> x.out,
   constructed |-> x.constructed, called |-> x.called, built |-> x.built,
   written |-> x.written]

NoCliRun ==
  [ran |-> FALSE, args |-> Args(None, "", "", ""), status |-> 0, out |-> <<>>,
   constructed |-> FALSE, called |-> FALSE, built |-> FALSE, written |-> <<>>]

NoTimestamp == [done |-> FALSE, processor |-> <<>>, transcriber |-> <<>>]
NoReport == [built |-> FALSE, results |-> <<>>, processor |-> <<>>, transcriber |-> <<>>]

World == [files |-> files, nextId |-> nextId]

InitProgram ==
  /\ transcriber = NewTranscriber
  /\ processor = NewProcessor
  /\ files = InitialFiles
  /\ nextId = 10
  /\ calls = 0
  /\ extractedIds = {}
  /\ stagedIds = {}
  /\ invoked = {}
  /\ inv = NoInvocation
  /\ session_app = NewSession
  /\ session_web = NewSession
  /\ ui = NoUiRun
  /\ cli = NoCliRun
  /\ report = NoReport
  /\ timestamp = NoTimestamp

Init ==
  /\ InitProgram
  /\ tape = <<>>
  /\ seconds = 0

-----------------------------------------------------------------------------
(* Actions of the orchestrator specification: callers that invoke the two   *)
(* orchestrators on files of their own                                      *)

\* transcriber.transcribe_file(file_path)
TranscribeFile ==
  /\ calls < MaxCalls
  /\ \E f \in UserFiles, env \in SmallEnvs :
       \E r \in {transcribe_file(transcriber, World, f, env, calls + 1)} :
       /\ transcriber' = r.self
       /\ files' = r.w.files
       /\ nextId' = r.w.nextId
       /\ extractedIds' = extractedIds \cup r.created
       /\ inv' = Invocation("caller", "AudioTranscriber", f, env, r)
  /\ invoked' = invoked \cup {"transcriber"}
  /\ calls' = calls + 1
  /\ UNCHANGED <<processor, stagedIds, session_app, session_web, ui, cli,
                 tape, report, seconds, timestamp>>

\* processor.process_file(input_path)
ProcessFile ==
  /\ calls < MaxCalls
  /\ \E f \in UserFiles, env \in SmallEnvs :
       \E r \in {process_file(processor, World, f, env, calls + 1)} :
       /\ processor' = r.self
       /\ files' = r.w.files
       /\ nextId' = r.w.nextId
       /\ extractedIds' = extractedIds \cup r.created
       /\ inv' = Invocation("caller", "AudioProcessor", f, env, r)
  /\ invoked' = invoked \cup {"processor"}
  /\ calls' = calls + 1
  /\ UNCHANGED <<transcriber, stagedIds, session_app, session_web, ui, cli,
                 tape, report, seconds, timestamp>>

NextOrchestrators == TranscribeFile \/ ProcessFile

\* the orchestrators under any sequence of invocations
Spec == Init /\ [][NextOrchestrators]_vars

-----------------------------------------------------------------------------
(* Actions of the front-end specification: one per script run *)

\* one run of the app.py script
AppMain ==
  /\ calls < MaxCalls
  /\ \E up \in Uploads, clicked \in BOOLEAN :
       \E probe \in {app_main(processor, World, session_app, up, clicked, "raise",
                              Env("ok", "ok", "ok", <<>>), calls + 1)} :
       \E stage \in OutcomesIf(probe.started) :
       \E env \in EnvsIf(probe.started /\ stage = "ok") :
       \E s \in {app_main(processor, World, session_app, up, clicked, stage, env,
                          calls + 1)} :
       /\ processor' = s.h.self
       /\ files' = s.h.w.files
       /\ nextId' = s.h.w.nextId
       /\ session_app' = s.h.session
       /\ stagedIds' = IF s.started THEN stagedIds \cup {s.h.staged} ELSE stagedIds
       /\ extractedIds' = IF s.h.called THEN extractedIds \cup s.h.ended.created
                          ELSE extractedIds
       /\ invoked' = IF s.h.called THEN invoked \cup {"processor"} ELSE invoked
       /\ inv' = IF s.h.called
                 THEN Invocation("app", "AudioProcessor",
                                 Path(s.h.staged, up.name.suffix), env, s.h.ended)
                 ELSE NoInvocation
       /\ ui' = UiRun("app", up, s)
  /\ cli' = NoCliRun
  /\ calls' = calls + 1
  /\ UNCHANGED <<transcriber, session_web, tape, report, seconds, timestamp>>

\* one run of the web_app.py script
WebMain ==
  /\ calls < MaxCalls
  /\ \E up \in Uploads, clicked \in BOOLEAN :
       \E probe \in {web_main(transcriber, World, session_web, up, clicked, "raise",
                              Env("ok", "ok", "ok", <<>>), calls + 1)} :
       \E stage \in OutcomesIf(probe.started) :
       \E env \in EnvsIf(probe.started /\ stage = "ok") :
       \E s \in {web_main(transcriber, World, session_web, up, clicked, stage, env,
                          calls + 1)} :
       /\ transcriber' = s.h.self
       /\ files' = s.h.w.files
       /\ nextId' = s.h.w.nextId
       /\ session_web' = s.h.session
       /\ stagedIds' = IF s.started THEN stagedIds \cup {s.h.staged} ELSE stagedIds
       /\ extractedIds' = IF s.h.called THEN extractedIds \cup s.h.ended.created
                          ELSE extractedIds
       /\ invoked' = IF s.h.called THEN invoked \cup {"transcriber"} ELSE invoked
       /\ inv' = IF s.h.called
                 THEN Invocation("web", "AudioTranscriber",
                                 Path(s.h.staged, up.name.suffix), env, s.h.ended)
                 ELSE NoInvocation
       /\ ui' = UiRun("web", up, s)
  /\ cli' = NoCliRun
  /\ calls' = calls + 1
  /\ UNCHANGED <<processor, session_app, tape, report, seconds, timestamp>>

\* one run of main.py, a process of its own with its own AudioTranscriber
CliMain ==
  /\ calls < MaxCalls
  /\ \E args \in CliArgs :
       \E probe \in {cli_main(World, args, Env("fail_pipeline", "ok", "ok", <<>>),
                              "ok", calls + 1)} :
       \E env \in EnvsIf(probe.called) :
       \E save \in OutcomesIf(cli_main(World, args, env, "raise", calls + 1).built) :
       \E x \in {cli_main(World, args, env, save, calls + 1)} :
       /\ files' = x.w.files
       /\ nextId' = x.w.nextId
       /\ extractedIds' = IF x.called THEN extractedIds \cup x.ended.created
                          ELSE extractedIds
       /\ inv' = IF x.called
                 THEN Invocation("cli", "AudioTranscriber",
                                 Path(args.id, args.suffix), env, x.ended)
                 ELSE NoInvocation
       /\ cli' = CliRun(args, x)
  /\ ui' = NoUiRun
  /\ calls' = calls + 1
  /\ UNCHANGED <<transcriber, processor, stagedIds, invoked, session_app, session_web,
                 tape, report, seconds, timestamp>>

NextFrontEnds == AppMain \/ WebMain \/ CliMain

\* the three front ends under any sequence of script runs
SpecFrontEnds == Init /\ [][NextFrontEnds]_vars

-----------------------------------------------------------------------------
(* The segment-pipeline specification: the diarization yields the tape, a   *)
(* freshly built orchestrator processes it, and both report builders render *)
(* the result.                                                              *)

InitPipeline ==
  /\ InitProgram
  /\ tape \in RichTapes
  /\ seconds = 0

\* AudioTranscriber().transcribe_file on an audio file whose diarization is tape
TranscribeTape ==
  /\ inv = NoInvocation
  /\ \E r \in {transcribe_file(transcriber, World, InputAudio,
                                Env("ok", "ok", "ok", tape), 1)} :
       /\ transcriber' = r.self
       /\ files' = r.w.files
       /\ nextId' = r.w.nextId
       /\ extractedIds' = extractedIds \cup r.created
       /\ inv' = Invocation("caller", "AudioTranscriber", InputAudio,
                               Env("ok", "ok", "ok", tape), r)
  /\ invoked' = invoked \cup {"transcriber"}
  /\ calls' = calls + 1
  /\ UNCHANGED <<processor, stagedIds, session_app, session_web, ui, cli,
                 tape, report, seconds, timestamp>>

\* AudioProcessor().process_file on an audio file whose diarization is tape
ProcessTape ==
  /\ inv = NoInvocation
  /\ \E r \in {process_file(processor, World, InputAudio,
                             Env("ok", "ok", "ok", tape), 1)} :
       /\ processor' = r.self
       /\ files' = r.w.files
       /\ nextId' = r.w.nextId
       /\ extractedIds' = extractedIds \cup r.created
       /\ inv' = Invocation("caller", "AudioProcessor", InputAudio,
                               Env("ok", "ok", "ok", tape), r)
  /\ invoked' = invoked \cup {"processor"}
  /\ calls' = calls + 1
  /\ UNCHANGED <<transcriber, stagedIds, session_app, session_web, ui, cli,
                 tape, report, seconds, timestamp>>

\* results_to_markdown(results, name) and create_markdown_report(results, name)
BuildReports ==
  /\ inv /= NoInvocation
  /\ ~inv.raised
  /\ ~report.built
  /\ report' = [built |-> TRUE, results |-> inv.results,
                processor |-> results_to_markdown(inv.results, Name("talk", ".wav")),
                transcriber |-> create_markdown_report(inv.results, Name("talk", ".wav"))]
  /\ UNCHANGED <<transcriber, processor, files, nextId, calls, extractedIds, stagedIds,
                 invoked, inv, session_app, session_web, ui, cli, tape, seconds,
                 timestamp>>

NextPipeline == TranscribeTape \/ ProcessTape \/ BuildReports

SpecPipeline == InitPipeline /\ [][NextPipeline]_vars

-----------------------------------------------------------------------------
(* The timestamp specification: both formatters applied to one input *)

\* whole and fractional seconds around the minute, the hour and a hundred hours
FormatInputs ==
  {((h * 3600 + m * 60 + sec) * 1000) + frac :
     h \in {0, 1, 10, 99, MaxHours}, m \in {0, 1, 59}, sec \in {0, 1, 5, 59},
     frac \in {0, 999}}

InitFormat ==
  /\ InitProgram
  /\ tape = <<>>
  /\ seconds \in FormatInputs

FormatTime ==
  /\ ~timestamp.done
  /\ timestamp' = [done |-> TRUE,
                   processor |-> AudioProcessor_format_time(seconds),
                   transcriber |-> AudioTranscriber_seconds_to_timestamp(seconds)]
  /\ UNCHANGED <<transcriber, processor, files, nextId, calls, extractedIds, stagedIds,
                 invoked, inv, session_app, session_web, ui, cli, tape, report, seconds>>

NextFormat == FormatTime

SpecFormat == InitFormat /\ [][NextFormat]_vars

-----------------------------------------------------------------------------
(* Properties *)

\* the minimum duration of each orchestrator, in milliseconds
Threshold(cls) ==
  IF cls = "AudioProcessor" THEN MinDurationMsProcessor ELSE MinDurationMsTranscriber

Count(S) == Cardinality(S)

\* C1: whenever an orchestrator invocation has extracted audio into a temp
\* file, that file no longer exists once the invocation has ended, so after
\* any sequence of invocations no extracted-audio temp file remains.
C1_NoExtractedTempRemains == extractedIds \cap files = {}

\* C2: when a UI handler has staged the upload and called the pipeline, the
\* staged temp file is gone when the handler ends, whether the pipeline
\* returned results, raised, or returned nothing.
C2_StagedTempDeleted == (ui.started /\ ui.called) => ui.staged \notin files

\* a track that nothing stands in the way of: the models handle it, it is not
\* below the threshold, and its text is not blank
Survives(cls, t) ==
  /\ t.crop = "ok"
  /\ t.whisper = "ok"
  /\ Duration(t) >= Threshold(cls)
  /\ strip(t.text) /= <<>>

\* C3: an exception while cropping or transcribing one segment skips only
\* that segment: the invocation does not fail and every other surviving
\* segment is in the result.
C3_SegmentErrorSkipsOnlyThatSegment ==
  inv /= NoInvocation =>
    /\ ~inv.raised
    /\ Len(inv.results) = Count({i \in 1..Len(tape) : Survives(inv.cls, tape[i])})

NoSegmentErrors == \A i \in 1..Len(tape) : tape[i].crop = "ok" /\ tape[i].whisper = "ok"

BelowThreshold(cls) == {i \in 1..Len(tape) : Duration(tape[i]) < Threshold(cls)}

\* the tracks that were transcribed and gave an empty or whitespace-only text
BlankText(cls) ==
  {i \in 1..Len(tape) : i \notin BelowThreshold(cls) /\ strip(tape[i].text) = <<>>}

\* C4: with no per-segment errors, the length of the returned list is the
\* number of segments minus those below the minimum duration minus those
\* whose transcribed text is empty or whitespace-only.
C4_ResultLength ==
  (inv /= NoInvocation /\ NoSegmentErrors) =>
    /\ ~inv.raised
    /\ Len(inv.results) =
         Len(tape) - Count(BelowThreshold(inv.cls)) - Count(BlankText(inv.cls))

\* one track below the threshold is dropped and one is kept
C4_Witness ==
  /\ inv.cls = "AudioProcessor"
  /\ NoSegmentErrors
  /\ Len(tape) = 2
  /\ Count(BelowThreshold("AudioProcessor")) = 1
  /\ Count(BlankText("AudioProcessor")) = 0
  /\ Len(inv.results) = 1

SegmentCountOf(lines) ==
  LET i == CHOOSE i \in 1..Len(lines) : lines[i].kind = "segment_count" IN lines[i].num

ReportHasSegments(lines) == lines /= <<>> => SegmentCountOf(lines) >= 1

\* C5: when zero segments survive, the run fails and makes no report: the CLI
\* exits non-zero without building or writing the markdown file, the UI
\* handlers show an error and store nothing; no stored or written report is
\* one of zero segments.
C5_NoReportFromEmptyResults ==
  /\ (inv.caller = "cli" /\ ~inv.raised /\ inv.results = <<>>) =>
       (cli.status /= 0 /\ ~cli.built /\ cli.written = <<>>)
  /\ (inv.caller \in {"app", "web"} /\ ~inv.raised /\ inv.results = <<>>) =>
       ("no_results" \in ui.errors /\ ~ui.stored)
  /\ ReportHasSegments(cli.written)
  /\ ReportHasSegments(session_app.markdown_result)
  /\ ReportHasSegments(session_web.markdown_result)

\* a UI run whose pipeline returned nothing, after a run that stored a report
C5_Witness ==
  /\ inv.caller = "web"
  /\ ~inv.raised
  /\ inv.results = <<>>
  /\ "no_results" \in ui.errors
  /\ "markdown_result" \in session_web.keys

AllowList == {".mp4", ".avi", ".mov", ".mkv", ".webm", ".wav", ".mp3", ".m4a", ".flac"}

RejectedWithFormatList ==
  /\ cli.status = 1
  /\ \E i \in 1..Len(cli.out) : cli.out[i] = "supported_formats"
  /\ ~cli.constructed
  /\ ~cli.called

\* C6 as stated: the CLI given any input whose extension is not in the
\* allow-list exits with status 1 and prints the supported-format list,
\* before any orchestrator is constructed.
C6_UnsupportedRejected ==
  (cli.ran /\ lower(cli.args.suffix) \notin AllowList) => RejectedWithFormatList

\* C6 amended: the same for any input file that exists; for a missing file the
\* CLI exits with status 1 on the existence check and prints no format list.
C6_ExistingUnsupportedRejected ==
  /\ (cli.ran /\ lower(cli.args.suffix) \notin AllowList /\ cli.args.id \in InitialFiles)
       => RejectedWithFormatList
  /\ (cli.ran /\ cli.args.id \notin InitialFiles)
       => (cli.status = 1 /\ cli.out = <<"file_not_found">> /\ ~cli.constructed)

C6_Witness ==
  /\ cli.ran
  /\ cli.args.suffix = ".TXT"
  /\ cli.args.id \in InitialFiles
  /\ cli.status = 1

ModelFields(p) == <<p.pipeline, p.processor, p.model, p.audio_handler>>

ResultOf(cls, t) ==
  IF cls = "AudioProcessor" THEN ProcessorResult(t, t.text) ELSE TranscriberResult(t, t.text)

\* C8: the returned list is an order-preserving subsequence of the emitted
\* tracks: some strictly increasing choice of tracks gives exactly the list.
C8_OrderPreserved ==
  (inv /= NoInvocation /\ ~inv.raised) =>
    \E f \in [1..Len(inv.results) -> 1..Len(tape)] :
      /\ \A i, j \in 1..Len(inv.results) : i < j => f[i] < f[j]
      /\ \A i \in 1..Len(inv.results) : inv.results[i] = ResultOf(inv.cls, tape[f[i]])

C8_Witness ==
  /\ inv.cls = "AudioTranscriber"
  /\ ~inv.raised
  /\ Len(inv.results) = 2

DigitChars == {"0", "1", "2", "3", "4", "5", "6", "7", "8", "9"}

\* the fields of a string between its colons
RECURSIVE SplitColon(_, _, _)
SplitColon(s, done, cur) ==
  IF s = <<>> THEN Append(done, cur)
  ELSE IF Head(s) = ":" THEN SplitColon(Tail(s), Append(done, cur), <<>>)
  ELSE SplitColon(Tail(s), done, Append(cur, Head(s)))

DigitValue(c) == CHOOSE d \in 0..9 : Digit(d) = c

RECURSIVE NumberOf(_)
NumberOf(ds) ==
  IF ds = <<>> THEN 0 ELSE NumberOf(SubSeq(ds, 1, Len(ds) - 1)) * 10 + DigitValue(ds[Len(ds)])

\* ts reads H:MM:SS with MM and SS two digits in 0..59, H two digits or more,
\* and names the whole seconds of ms
ReadsAs(ts, ms) ==
  LET f == SplitColon(ts, <<>>, <<>>) IN
  /\ Len(f) = 3
  /\ \A k \in 1..3 : f[k] /= <<>> /\ \A i \in 1..Len(f[k]) : f[k][i] \in DigitChars
  /\ Len(f[1]) >= 2 /\ Len(f[2]) = 2 /\ Len(f[3]) = 2
  /\ NumberOf(f[2]) <= 59 /\ NumberOf(f[3]) <= 59
  /\ LET whole == NumberOf(f[1]) * 3600 + NumberOf(f[2]) * 60 + NumberOf(f[3]) IN
       whole * 1000 <= ms /\ ms < (whole + 1) * 1000

Examples(ts, ms) ==
  /\ ms = 0 => ts = <<"0", "0", ":", "0", "0", ":", "0", "0">>
  /\ ms = 65000 => ts = <<"0", "0", ":", "0", "1", ":", "0", "5">>
  /\ ms = 3661000 => ts = <<"0", "1", ":", "0", "1", ":", "0", "1">>

DistinctSpeakers(results) ==
  Count({i \in 1..Len(results) :
           \A j \in 1..(i - 1) : results[j].speaker /= results[i].speaker})

TheLine(lines, kind) ==
  lines[CHOOSE i \in 1..Len(lines) : lines[i].kind = kind]

\* lines is a report of results: its counts are those of results and its
\* heading is followed by one block per result, in order, and nothing else
ReportOf(lines, results, quote) ==
  LET H == 1 + CHOOSE i \in 1..Len(lines) : lines[i].kind = "heading" IN
  /\ Count({i \in 1..Len(lines) : lines[i].kind = "speaker_count"}) = 1
  /\ Count({i \in 1..Len(lines) : lines[i].kind = "segment_count"}) = 1
  /\ TheLine(lines, "speaker_count").num = DistinctSpeakers(results)
  /\ TheLine(lines, "segment_count").num = Len(results)
  /\ Len(lines) = H + 3 * Len(results)
  /\ \A i \in 1..Len(results) :
       /\ lines[H + 3 * i - 2] = Line("segment_head", 0, "", results[i])
       /\ lines[H + 3 * i - 1] = Line(quote, 0, "", results[i])
       /\ lines[H + 3 * i].kind = "blank"

\* C10: the speaker count a report renders is the number of distinct speaker
\* labels of the list, the segment count is the length of the list, and the
\* report holds exactly one block per segment in input order.
C10_ReportCounts ==
  report.built =>
    /\ ReportOf(report.processor, report.results, "text")
    /\ ReportOf(report.transcriber, report.results, "quoted_text")

\* two segments of one speaker
C10_Witness ==
  /\ report.built
  /\ Len(report.results) = 2
  /\ DistinctSpeakers(report.results) = 1

AudioOnlyExtensions == {".wav", ".mp3", ".m4a", ".flac"}

\* C11: for every supported audio-only input, in any letter case, the
\* invocation makes no temp file, the audio path it prepares (when the models
\* loaded and it got that far) is the input path itself, and the input file,
\* like every file that was on disk at the start, still exists afterwards.
C11_AudioInputUsedAsIs ==
  /\ InitialFiles \subseteq files
  /\ (inv /= NoInvocation /\ lower(inv.input.suffix) \in AudioOnlyExtensions) =>
       /\ inv.created = {}
       /\ inv.input.id \in files
       /\ inv.stage /= "load" => inv.audio_path = inv.input

\* an upper-case audio input processed to a result
C11_Witness ==
  /\ inv.cls = "AudioProcessor"
  /\ inv.input = InputAudioUpper
  /\ inv.stage = "return"
  /\ inv.audio_path = InputAudioUpper
  /\ inv.results /= <<>>

\* C12: in app.py an upload larger than 1000MB is a hard stop: the run stops
\* before the start button is offered and processing is never started for it;
\* an upload above 500MB and up to 1000MB only gets the warning.
C12_HardStopAboveLimit ==
  /\ (ui.script = "app" /\ ui.size_mb > 1000) =>
       (ui.stopped /\ ~ui.offered /\ ~ui.started)
  /\ (ui.script = "app" /\ ui.size_mb > 500 /\ ui.size_mb <= 1000) =>
       (ui.warned /\ ~ui.stopped /\ ui.offered)

VideoExtensions == {".mp4", ".avi", ".mov", ".mkv", ".webm"}

\* the last invocation got as far as the extraction, on a video input, and the
\* extraction found no audio track or failed while writing the file
ExtractionFailed ==
  /\ inv /= NoInvocation
  /\ lower(inv.input.suffix) \in VideoExtensions
  /\ inv.stage /= "load"
  /\ inv.extract \in {"no_audio", "write_fail"}

\* C13: when the audio extraction from a video input fails, the invocation
\* raises to its caller at the extraction, with no audio path handed to the
\* diarization and no result, and the temp file allocated for the extraction
\* does not exist any more.
C13_ExtractionFailureSignalled ==
  ExtractionFailed =>
    /\ inv.raised
    /\ inv.stage = "extract"
    /\ inv.audio_path = NoPath
    /\ inv.results = <<>>
    /\ Cardinality(inv.created) = 1
    /\ inv.created \cap files = {}

\* a failed write of the extracted audio in AudioProcessor, after an earlier run
C13_Witness ==
  /\ calls = 2
  /\ inv.cls = "AudioProcessor"
  /\ inv.extract = "write_fail"
  /\ inv.stage = "extract"
  /\ inv.raised
  /\ inv.created /= {}

\* result r is made of track t: its times and speaker are those of t, and its
\* text is the transcription output of t, trimmed, and is not empty
MadeOf(cls, r, t) ==
  /\ t.crop = "ok"
  /\ t.whisper = "ok"
  /\ r = ResultOf(cls, t)
  /\ r.text = strip(t.text)
  /\ r.text /= <<>>

\* C14 as stated: every segment of the result is made of a track whose
\* duration exceeds the minimum threshold of the orchestrator, and its text
\* is the trimmed transcription output and is not empty.
C14_RetainedExceedThreshold ==
  inv /= NoInvocation =>
    \A i \in 1..Len(inv.results) :
      \E j \in 1..Len(tape) :
        /\ MadeOf(inv.cls, inv.results[i], tape[j])
        /\ Duration(tape[j]) > Threshold(inv.cls)

\* C14 amended: the duration is not below the threshold (a track of exactly
\* the threshold is retained); in AudioProcessor the duration tested is that
\* of the cropped waveform.
C14_RetainedNotBelowThreshold ==
  inv /= NoInvocation =>
    \A i \in 1..Len(inv.results) :
      \E j \in 1..Len(tape) :
        /\ MadeOf(inv.cls, inv.results[i], tape[j])
        /\ Duration(tape[j]) >= Threshold(inv.cls)
        /\ inv.cls = "AudioProcessor" => Frames(tape[j]) * 10 >= SampleRate

\* a track of exactly half a second retained by AudioTranscriber
C14_Witness ==
  /\ inv.cls = "AudioTranscriber"
  /\ Len(tape) = 2
  /\ Len(inv.results) = 1
  /\ \E j \in 1..Len(tape) :
       /\ MadeOf("AudioTranscriber", inv.results[1], tape[j])
       /\ Duration(tape[j]) = 500
       /\ tape[j].text = <<" ", "a">>

TranscriberFullyLoaded ==
  \A k \in {"diarization_pipeline", "whisper_processor", "whisper_model", "audio_handler"} :
    transcriber[k] /= None

ProcessorFullyLoaded ==
  \A k \in {"pipeline", "processor", "model", "audio_handler"} : processor[k] /= None

\* C15: on each instance, whenever the field the "already loaded" guard
\* tests is set, the transcription processor, the transcription model and
\* the audio handler are set too; and an invocation that got past the model
\* loading ran on a fully loaded instance.
C15_NoPartialModelState ==
  /\ transcriber.diarization_pipeline /= None => TranscriberFullyLoaded
  /\ processor.pipeline /= None => ProcessorFullyLoaded
  /\ (inv.cls = "AudioTranscriber" /\ inv.stage /= "load") => TranscriberFullyLoaded
  /\ (inv.cls = "AudioProcessor" /\ inv.stage /= "load") => ProcessorFullyLoaded

\* an invocation that went on to the diarization with part of the models
ProceedsPartlyLoaded ==
  /\ inv.cls = "AudioTranscriber"
  /\ inv.stage \in {"segment", "return"}
  /\ transcriber.diarization_pipeline /= None
  /\ transcriber.audio_handler = None

\* the file name the report renders is the stored one
NamesMatch(session) ==
  TheLine(session.markdown_result, "input_file").name = session.original_filename

AppSessionFromOneRun ==
  \/ session_app = NewSession
  \/ /\ session_app.keys = {"markdown_result", "original_filename"}
     /\ session_app.original_filename /= NoName
     /\ NamesMatch(session_app)
     /\ ReportHasSegments(session_app.markdown_result)

WebSessionFromOneRun ==
  \/ session_web = NewSession
  \/ /\ session_web.keys = {"transcription_results", "markdown_result", "original_filename"}
     /\ session_web.original_filename /= NoName
     /\ NamesMatch(session_web)
     /\ session_web.transcription_results /= <<>>
     /\ ReportOf(session_web.markdown_result, session_web.transcription_results,
                 "quoted_text")

\* the run of this step did not end in a result: it was not started, its
\* staging or its pipeline invocation raised, or it got no segments
RunWithoutResult ==
  \/ ~ui'.started
  \/ ~ui'.called
  \/ inv'.raised
  \/ inv'.results = <<>>

====
